---- MODULE Spec2Model ----
(***************************************************************************)
(* Model of the zero-trust core of cloud-iot-security-framework:           *)
(*   - MicroSegmentationManager  (src/src/security/micro_segmentation.py)  *)
(*   - ZeroTrustAuthenticator    (src/src/security/zero_trust.py)          *)
(* Each public method is one action; the value a call returns is kept in   *)
(* the variable ret together with the call's name and arguments.           *)
(***************************************************************************)
EXTENDS Integers, Sequences, FiniteSets, TLC

VARIABLES
    device_zones,   \* MicroSegmentationManager.device_zones : device -> zone | NoZone
    policies,       \* MicroSegmentationManager.policies     : sequence of NetworkPolicy
    traffic_log,    \* MicroSegmentationManager.traffic_log  : sequence of log entries
    seg_metrics,    \* MicroSegmentationManager.metrics
    now,            \* datetime.utcnow(), in whole minutes
    ca_cert,        \* ZeroTrustAuthenticator.ca_cert is loaded (ca_cert_path was given)
    auth_contexts,  \* ZeroTrustAuthenticator.auth_contexts : device -> AuthContext | NoContext
    auth_metrics,   \* ZeroTrustAuthenticator.metrics
    streak,         \* history: device -> number of anomalous checks that are all its context
                    \* has seen since authenticate_device created it; -1 once anything else
                    \* touched the context, or when there is none
    revoked,        \* history: device -> revoke_authentication was called for it and no
                    \* authenticate_device call for it has returned a token since
    utc_offset,     \* the host's local time zone: minutes east of UTC
    inflight,       \* thread -> the call it is in the middle of or has completed, or Idle
    ret             \* the last call if it returned a value (its name, arguments, value), else NoReturn

seg_vars == <<device_zones, policies, traffic_log, seg_metrics>>
auth_vars == <<now, ca_cert, auth_contexts, auth_metrics, streak, revoked, utc_offset, inflight>>
vars == <<device_zones, policies, traffic_log, seg_metrics,
          now, ca_cert, auth_contexts, auth_metrics, streak, revoked,
          utc_offset, inflight, ret>>

(***************************************************************************)
(* Bounds of the model                                                     *)
(***************************************************************************)
\* at most this many add_policy calls in a behaviour
MaxAdded == 1
\* at most this many evaluate_traffic calls in a behaviour
MaxEvals == 1

\* devices the harness drives
Devices == {"d1", "d2"}
\* absent key of the device_zones dict (dict.get returns None)
NoZone == "none"
\* ret after a call that returns nothing (Python's None)
NoReturn == [ op |-> "none" ]
\* the threads that call into the two objects
Threads == {"t1", "t2"}
\* a thread that is in no call
Idle == [ pc |-> "idle" ]
\* protocols and ports a flow may carry
Protocols == {"mqtt", "ssh"}
Ports == {1883, 22}

(***************************************************************************)
(* SecurityZone and NetworkPolicy                                          *)
(***************************************************************************)
\* enum SecurityZone, in definition (= iteration) order
ZoneOrder ==
    << "external", "dmz", "cloud_gateway", "iot_trusted", "iot_untrusted",
       "iot_quarantine", "management", "data_processing", "ai_analytics", "admin" >>

SecurityZone == { ZoneOrder[i] : i \in 1..Len(ZoneOrder) }

IOT_TRUSTED == "iot_trusted"
IOT_UNTRUSTED == "iot_untrusted"
IOT_QUARANTINE == "iot_quarantine"
CLOUD_GATEWAY == "cloud_gateway"

\* dataclass NetworkPolicy (enabled defaults to True)
NetworkPolicy(name, src, dst, protos, ports, action, priority, enabled) ==
    [ name |-> name, source_zone |-> src, dest_zone |-> dst,
      allowed_protocols |-> protos, allowed_ports |-> ports,
      action |-> action, priority |-> priority, enabled |-> enabled ]

\* NetworkPolicy.matches
Matches(p, src, dst, protocol, port) ==
    /\ p.source_zone = src
    /\ p.dest_zone = dst
    /\ (protocol \in p.allowed_protocols \/ "*" \in p.allowed_protocols)
    /\ (port \in p.allowed_ports \/ 0 \in p.allowed_ports)

\* the zones of a for-loop over SecurityZone that skips the zones in skip
ZonesExcept(skip) == SelectSeq(ZoneOrder, LAMBDA z : z \notin skip)

\* a plausible slip: the gateway-ingress rule admits the TLS ports only
PipelinePoliciesTlsOnly ==
    << NetworkPolicy("iot_trusted_to_gateway", "iot_trusted", "cloud_gateway",
                     {"mqtt", "coap", "https"}, {8883, 443}, "allow", 100, TRUE),
       NetworkPolicy("gateway_to_processing", "cloud_gateway", "data_processing",
                     {"https", "grpc"}, {443, 50051}, "allow", 100, TRUE),
       NetworkPolicy("processing_to_ai", "data_processing", "ai_analytics",
                     {"https", "grpc"}, {443, 50051, 8080}, "allow", 100, TRUE),
       NetworkPolicy("ai_to_processing", "ai_analytics", "data_processing",
                     {"https"}, {443}, "allow", 100, TRUE) >>

\* _initialize_default_policies: the four pipeline policies
PipelinePolicies ==
    << NetworkPolicy("iot_trusted_to_gateway", "iot_trusted", "cloud_gateway",
                     {"mqtt", "coap", "https"}, {1883, 5683, 8883, 443}, "allow", 100, TRUE),
       NetworkPolicy("gateway_to_processing", "cloud_gateway", "data_processing",
                     {"https", "grpc"}, {443, 50051}, "allow", 100, TRUE),
       NetworkPolicy("processing_to_ai", "data_processing", "ai_analytics",
                     {"https", "grpc"}, {443, 50051, 8080}, "allow", 100, TRUE),
       NetworkPolicy("ai_to_processing", "ai_analytics", "data_processing",
                     {"https"}, {443}, "allow", 100, TRUE) >>

\* a plausible slip: the loop over the zones skips none
ManagementPoliciesToEveryZone ==
    [ i \in 1..Len(ZoneOrder) |->
        NetworkPolicy("management_to_" \o ZoneOrder[i], "management", ZoneOrder[i],
                      {"ssh", "https"}, {22, 443}, "allow", 90, TRUE) ]

\* management -> every zone but external and quarantine, priority 90
ManagementPolicies ==
    LET zs == ZonesExcept({"external", "iot_quarantine"})
    IN  [ i \in 1..Len(zs) |->
            NetworkPolicy("management_to_" \o zs[i], "management", zs[i],
                          {"ssh", "https"}, {22, 443}, "allow", 90, TRUE) ]

\* admin -> management, priority 95
AdminPolicies ==
    << NetworkPolicy("admin_to_management", "admin", "management",
                     {"ssh", "https"}, {22, 443}, "allow", 95, TRUE) >>

\* deny IoT-to-IoT lateral movement, priority 200
LateralDenyPolicies ==
    << NetworkPolicy("deny_iot_trusted_to_iot_untrusted", "iot_trusted", "iot_untrusted",
                     {"*"}, {0}, "deny", 200, TRUE),
       NetworkPolicy("deny_iot_untrusted_to_iot_trusted", "iot_untrusted", "iot_trusted",
                     {"*"}, {0}, "deny", 200, TRUE) >>

\* a plausible slip: the quarantine rules get the priority of the pipeline rules
QuarantineDenyPriorityLow(zs, i) ==
    NetworkPolicy("deny_quarantine_to_" \o zs[i], "iot_quarantine", zs[i],
                  {"*"}, {0}, "deny", 100, TRUE)

\* deny quarantine -> zone zs[i], priority 300
QuarantineDenyPolicy(zs, i) ==
    NetworkPolicy("deny_quarantine_to_" \o zs[i], "iot_quarantine", zs[i],
                  {"*"}, {0}, "deny", 300, TRUE)

QuarantineDenyPolicies ==
    LET zs == ZonesExcept({"iot_quarantine"})
    IN  [ i \in 1..Len(zs) |-> QuarantineDenyPolicy(zs, i) ]

\* the policy list after __init__
DefaultPolicies ==
    PipelinePolicies \o ManagementPolicies \o AdminPolicies
        \o LateralDenyPolicies \o QuarantineDenyPolicies

(***************************************************************************)
(* evaluate_traffic, as pure functions of the state                        *)
(***************************************************************************)
\* the priorities present in a policy list
Priorities(pols) == { pols[i].priority : i \in 1..Len(pols) }

Max(S) == CHOOSE x \in S : \A y \in S : y <= x

\* sorted(self.policies, key=priority, reverse=True): a stable sort, so policies of
\* equal priority keep their list order
RECURSIVE SortDesc(_, _)
SortDesc(pols, prios) ==
    IF prios = {} THEN << >>
    ELSE LET m == Max(prios)
         IN  SelectSeq(pols, LAMBDA p : p.priority = m) \o SortDesc(pols, prios \ {m})

\* a plausible slip: the list is searched in insertion order, without the sort
InsertionOrder(pols) == pols

SortedByPriority(pols) == SortDesc(pols, Priorities(pols))

\* matching_policies of evaluate_traffic
MatchingPolicies(pols, src_zone, dst_zone, protocol, port) ==
    SelectSeq(SortedByPriority(pols),
              LAMBDA p : p.enabled /\ Matches(p, src_zone, dst_zone, protocol, port))

LateralZones == {IOT_TRUSTED, IOT_UNTRUSTED}

\* evaluate_traffic after the zone lookup (lines 217-263): the verdict for a flow between
\* two resolved zones, the class of the outcome and the name of the deciding policy
Decide(pols, src_zone, dst_zone, protocol, port) ==
    LET m == MatchingPolicies(pols, src_zone, dst_zone, protocol, port)
    IN  IF m # << >>
        THEN [ allowed |-> (m[1].action = "allow"), kind |-> "policy", policy |-> m[1].name ]
        ELSE [ allowed |-> FALSE, kind |-> "default_deny", policy |-> "" ]

\* a plausible slip: the early return for an unknown zone lets the flow through
EvalOutcomeFailOpen(dz, pols, src, dst, protocol, port) ==
    IF dz[src] = NoZone \/ dz[dst] = NoZone
    THEN [ allowed |-> TRUE, kind |-> "unknown_zone", policy |-> "" ]
    ELSE Decide(pols, dz[src], dz[dst], protocol, port)

\* the outcome of evaluate_traffic(src, dst, protocol, port) in a state with zone map dz
\* and policy list pols
EvalOutcome(dz, pols, src, dst, protocol, port) ==
    IF dz[src] = NoZone \/ dz[dst] = NoZone
    THEN [ allowed |-> FALSE, kind |-> "unknown_zone", policy |-> "" ]
    ELSE Decide(pols, dz[src], dz[dst], protocol, port)

\* a plausible slip: the update counts down
BumpDown(m, key) == [ m EXCEPT ![key] = @ - 1 ]

Bump(m, key) == [ m EXCEPT ![key] = @ + 1 ]

\* a plausible slip: the lateral-movement counter is never touched
MetricsAfterNoLateral(m, o, src_zone, dst_zone) ==
    IF o.kind = "unknown_zone" THEN Bump(m, "packets_denied")
    ELSE IF o.kind = "policy"
    THEN IF o.allowed THEN Bump(m, "packets_allowed") ELSE Bump(m, "packets_denied")
    ELSE Bump(Bump(m, "packets_denied"), "zone_violations")

\* a plausible slip: every deny between resolved zones counts as a zone violation
MetricsAfterViolationOnEveryDeny(m, o, src_zone, dst_zone) ==
    IF o.kind = "unknown_zone" THEN Bump(m, "packets_denied")
    ELSE IF o.kind = "policy"
    THEN IF o.allowed THEN Bump(m, "packets_allowed")
         ELSE IF src_zone \in LateralZones /\ dst_zone \in LateralZones
              THEN Bump(Bump(Bump(m, "packets_denied"), "lateral_movement_blocked"),
                        "zone_violations")
              ELSE Bump(Bump(m, "packets_denied"), "zone_violations")
    ELSE Bump(Bump(m, "packets_denied"), "zone_violations")

\* a plausible slip: the default deny counts the zone violation but not the packet
MetricsAfterDefaultDenyUncounted(m, o, src_zone, dst_zone) ==
    IF o.kind = "unknown_zone" THEN Bump(m, "packets_denied")
    ELSE IF o.kind = "policy"
    THEN IF o.allowed THEN Bump(m, "packets_allowed")
         ELSE IF src_zone \in LateralZones /\ dst_zone \in LateralZones
              THEN Bump(Bump(m, "packets_denied"), "lateral_movement_blocked")
              ELSE Bump(m, "packets_denied")
    ELSE Bump(m, "zone_violations")

\* the metrics after an evaluate_traffic call with outcome o
MetricsAfter(m, o, src_zone, dst_zone) ==
    IF o.kind = "unknown_zone" THEN Bump(m, "packets_denied")
    ELSE IF o.kind = "policy"
    THEN IF o.allowed THEN Bump(m, "packets_allowed")
         ELSE IF src_zone \in LateralZones /\ dst_zone \in LateralZones
              THEN Bump(Bump(m, "packets_denied"), "lateral_movement_blocked")
              ELSE Bump(m, "packets_denied")
    ELSE Bump(Bump(m, "packets_denied"), "zone_violations")

\* the traffic log after the call: an entry is appended only when a policy decided
LogAfter(log, o, src, dst, src_zone, dst_zone, protocol, port) ==
    IF o.kind = "policy"
    THEN Append(log, [ src_device |-> src, dst_device |-> dst,
                       src_zone |-> src_zone, dst_zone |-> dst_zone,
                       protocol |-> protocol, port |-> port,
                       policy |-> o.policy,
                       action |-> (IF o.allowed THEN "allow" ELSE "deny"),
                       allowed |-> o.allowed ])
    ELSE log

(***************************************************************************)
(* MicroSegmentationManager: the operations                                *)
(***************************************************************************)
SegInit ==
    /\ device_zones = [ d \in Devices |-> NoZone ]
    /\ policies = DefaultPolicies
    /\ traffic_log = << >>
    /\ seg_metrics = [ packets_allowed |-> 0, packets_denied |-> 0,
                       zone_violations |-> 0, lateral_movement_blocked |-> 0 ]

assign_device_zone(d, zone) ==
    /\ device_zones' = [ device_zones EXCEPT ![d] = zone ]
    /\ ret' = NoReturn
    /\ UNCHANGED <<policies, traffic_log, seg_metrics>>
    /\ UNCHANGED auth_vars

\* a plausible slip: only a device that has a zone is moved
QuarantineOnlyAssigned(d) ==
    /\ device_zones' = IF device_zones[d] # NoZone
                       THEN [ device_zones EXCEPT ![d] = IOT_QUARANTINE ]
                       ELSE device_zones
    /\ ret' = NoReturn
    /\ UNCHANGED <<policies, traffic_log, seg_metrics>>
    /\ UNCHANGED auth_vars

quarantine_device(d) ==
    /\ device_zones' = [ device_zones EXCEPT ![d] = IOT_QUARANTINE ]
    /\ ret' = NoReturn
    /\ UNCHANGED <<policies, traffic_log, seg_metrics>>
    /\ UNCHANGED auth_vars

\* the zone restore_device uses when the caller names none
RestoreDefaultZone == IOT_UNTRUSTED

\* a plausible slip: the test for quarantine is missing
RestoreDeviceUnconditional(d, zone) ==
    /\ device_zones' = [ device_zones EXCEPT ![d] = zone ]
    /\ ret' = NoReturn
    /\ UNCHANGED <<policies, traffic_log, seg_metrics>>
    /\ UNCHANGED auth_vars

restore_device(d, zone) ==
    /\ device_zones' = IF device_zones[d] = IOT_QUARANTINE
                       THEN [ device_zones EXCEPT ![d] = zone ]
                       ELSE device_zones
    /\ ret' = NoReturn
    /\ UNCHANGED <<policies, traffic_log, seg_metrics>>
    /\ UNCHANGED auth_vars

EvalCalls == seg_metrics.packets_allowed + seg_metrics.packets_denied

evaluate_traffic(src, dst, protocol, port) ==
    LET o == EvalOutcome(device_zones, policies, src, dst, protocol, port)
    IN  /\ EvalCalls < MaxEvals
        /\ seg_metrics' = MetricsAfter(seg_metrics, o, device_zones[src], device_zones[dst])
        /\ traffic_log' = LogAfter(traffic_log, o, src, dst, device_zones[src],
                                   device_zones[dst], protocol, port)
        /\ ret' = [ op |-> "evaluate_traffic", src |-> src, dst |-> dst,
                    protocol |-> protocol, port |-> port,
                    result |-> o.allowed, kind |-> o.kind ]
        /\ UNCHANGED <<device_zones, policies>>
        /\ UNCHANGED auth_vars

\* the policies of the list that __init__ did not install
AddedPolicies == SelectSeq(policies, LAMBDA p : \A i \in 1..Len(DefaultPolicies) : DefaultPolicies[i] # p)

add_policy(p) ==
    /\ Len(AddedPolicies) < MaxAdded
    /\ policies' = Append(policies, p)
    /\ ret' = NoReturn
    /\ UNCHANGED <<device_zones, traffic_log, seg_metrics>>
    /\ UNCHANGED auth_vars

\* a plausible slip: the removal deletes the first policy of that name and stops
RemovePolicyFirstOnly(name) ==
    LET hits == { i \in 1..Len(policies) : policies[i].name = name }
        first == CHOOSE i \in hits : \A j \in hits : i <= j
    IN  /\ policies' = IF hits = {} THEN policies
                       ELSE SubSeq(policies, 1, first - 1)
                                \o SubSeq(policies, first + 1, Len(policies))
        /\ ret' = NoReturn
        /\ UNCHANGED <<device_zones, traffic_log, seg_metrics>>
        /\ UNCHANGED auth_vars

remove_policy(name) ==
    /\ policies' = SelectSeq(policies, LAMBDA p : p.name # name)
    /\ ret' = NoReturn
    /\ UNCHANGED <<device_zones, traffic_log, seg_metrics>>
    /\ UNCHANGED auth_vars

(***************************************************************************)
(* evaluate_traffic run by a thread while another thread changes the       *)
(* policy list. The method holds no lock; it reads self.device_zones, then *)
(* copies self.policies once (sorted() builds its own list in one step),   *)
(* then decides on the copy.                                               *)
(***************************************************************************)
undisturbed_auth == <<now, ca_cert, utc_offset, auth_contexts, auth_metrics, streak, revoked>>

\* lines 209-215: the two zone lookups and the early return for an unknown zone
evaluate_lookup(t, src, dst, protocol, port) ==
    LET resolved == device_zones[src] # NoZone /\ device_zones[dst] # NoZone
    IN  /\ inflight[t] = Idle
        /\ EvalCalls < MaxEvals
        /\ inflight' = IF resolved
                       THEN [ inflight EXCEPT ![t] =
                                [ pc |-> "sort", op |-> "evaluate_traffic",
                                  src |-> src, dst |-> dst,
                                  protocol |-> protocol, port |-> port,
                                  src_zone |-> device_zones[src],
                                  dst_zone |-> device_zones[dst],
                                  snapshot |-> << >> ] ]
                       ELSE inflight
        /\ seg_metrics' = IF resolved THEN seg_metrics ELSE Bump(seg_metrics, "packets_denied")
        /\ ret' = IF resolved THEN NoReturn
                  ELSE [ op |-> "evaluate_traffic", src |-> src, dst |-> dst,
                         protocol |-> protocol, port |-> port,
                         result |-> FALSE, kind |-> "unknown_zone" ]
        /\ UNCHANGED <<device_zones, policies, traffic_log>>
        /\ UNCHANGED undisturbed_auth

\* line 218: sorted(self.policies, ...) copies the list that self.policies names now
evaluate_snapshot(t) ==
    /\ inflight[t] # Idle
    /\ inflight[t].pc = "sort"
    /\ inflight' = [ inflight EXCEPT ![t].pc = "decide", ![t].snapshot = policies ]
    /\ ret' = NoReturn
    /\ UNCHANGED seg_vars
    /\ UNCHANGED undisturbed_auth

\* lines 217-263 on the copy: the filter, the verdict, the counters, the log, the return
evaluate_decide(t) ==
    LET call == inflight[t]
        o == Decide(call.snapshot, call.src_zone, call.dst_zone, call.protocol, call.port)
    IN  /\ call # Idle
        /\ call.pc = "decide"
        /\ seg_metrics' = MetricsAfter(seg_metrics, o, call.src_zone, call.dst_zone)
        /\ traffic_log' = LogAfter(traffic_log, o, call.src, call.dst, call.src_zone,
                                   call.dst_zone, call.protocol, call.port)
        /\ inflight' = [ inflight EXCEPT ![t] = Idle ]
        /\ ret' = [ op |-> "evaluate_traffic", src |-> call.src, dst |-> call.dst,
                    protocol |-> call.protocol, port |-> call.port,
                    result |-> o.allowed, kind |-> o.kind ]
        /\ UNCHANGED <<device_zones, policies>>
        /\ UNCHANGED undisturbed_auth

(***************************************************************************)
(* AuthContext and the tokens of ZeroTrustAuthenticator                    *)
(*                                                                         *)
(* Time is counted in whole minutes.  trust_score is a float in the code;  *)
(* every value it takes here is a multiple of 0.1 (the decay of a whole    *)
(* minute), so it is kept as an integer number of tenths of a point.       *)
(***************************************************************************)
\* tenths of a point per point of trust_score
TrustUnitsPerPoint == 10
\* token_lifetime_minutes: the authenticator is constructed with
\* ZeroTrustAuthenticator(token_lifetime_minutes=2), so that sessions expire within MaxTime
TokenLifetimeMinutes == 2
\* trust_score of a new context
InitialTrust == 100
\* self.anomaly_penalty
AnomalyPenalty == 20
\* min_trust_score passed to is_trusted
MinTrustScore == 70
\* self.trust_decay_rate = 0.1 per minute, in tenths of a point
TrustDecayTenthsPerMinute == 1
\* anomaly_score above which a check is anomalous (0.5), in tenths
AnomalyThresholdTenths == 5

Points(p) == p * TrustUnitsPerPoint

\* absent key of the auth_contexts dict
NoContext == [ device_id |-> "none" ]
HasContext(ctxs, d) == ctxs[d].device_id # "none"

\* a failed call returns None instead of a token
NoToken == [ device_id |-> "none" ]

\* the key tokens are signed with
jwt_secret == "secret"

\* the AuthContext that authenticate_device builds at time t
AuthContext(d, device_type, method, t) ==
    [ device_id |-> d, device_type |-> device_type, auth_method |-> method,
      auth_time |-> t, expires_at |-> t + TokenLifetimeMinutes,
      trust_score |-> Points(InitialTrust), behavior_normal |-> TRUE,
      location_verified |-> TRUE, certificate_valid |-> TRUE ]

\* AuthContext.is_expired at time t
IsExpired(c, t) == t >= c.expires_at

\* a plausible slip: is_trusted looks at the score and the expiry only
IsTrustedScoreOnly(c, t, min_trust_score) ==
    /\ ~IsExpired(c, t)
    /\ c.trust_score >= Points(min_trust_score)

\* AuthContext.is_trusted at time t
IsTrusted(c, t, min_trust_score) ==
    /\ ~IsExpired(c, t)
    /\ c.trust_score >= Points(min_trust_score)
    /\ c.behavior_normal
    /\ c.certificate_valid

\* time.time(): the seconds since the epoch at minute t of the UTC clock
EpochSeconds(t) == t * 60

\* int(dt.timestamp()) of the naive datetime dt = utcnow() taken at minute t: timestamp()
\* reads a naive datetime as local time, so the host's UTC offset is subtracted
Timestamp(t) == (t - utc_offset) * 60

\* jwt.encode(token_payload, self.jwt_secret): the claims and the key that signed them
Token(d, device_type, method, issued, expires, trust_score) ==
    [ device_id |-> d, device_type |-> device_type, auth_method |-> method,
      iat |-> Timestamp(issued), exp |-> Timestamp(expires),
      trust_score |-> trust_score, key |-> jwt_secret ]

\* json.dumps of the payload raises TypeError for a value that is not JSON (e.g. bytes)
Unserializable == "<bytes>"
JsonSerializable(x) == x # Unserializable

(***************************************************************************)
(* Credential verifiers                                                    *)
(***************************************************************************)
\* a credential bundle: device_key present or not, an OAuth token ("none" for a missing
\* key, "" or a non-empty string), a certificate ("none", "garbage" for bytes that do not
\* parse, or its validity window <<not_valid_before, not_valid_after>>)
Credentials(device_key, token, certificate) ==
    [ device_key |-> device_key, token |-> token, certificate |-> certificate ]

\* _verify_jwt_credentials
VerifyJwtCredentials(credentials) == credentials.device_key

\* _verify_oauth_token
VerifyOauthToken(token) == token # "none" /\ token # ""

\* _verify_mtls_certificate reaches the counter (a certificate is given and a CA is loaded)
MtlsAttempted(cert, ca) == cert # "none" /\ ca

\* _verify_mtls_certificate at time t
VerifyMtlsCertificate(cert, ca, t) ==
    /\ MtlsAttempted(cert, ca)
    /\ cert # "garbage"
    /\ ~(t < cert[1] \/ t > cert[2])

AuthMethods == {"jwt", "mtls", "oauth"}

\* a plausible slip: a method the dispatch does not know is treated as the default, jwt
VerifiedUnknownAsJwt(method, credentials, ca, t) ==
    CASE method = "jwt" -> VerifyJwtCredentials(credentials)
      [] method = "mtls" -> VerifyMtlsCertificate(credentials.certificate, ca, t)
      [] method = "oauth" -> VerifyOauthToken(credentials.token)
      [] OTHER -> VerifyJwtCredentials(credentials)

\* the dispatch of authenticate_device: the verifier's answer
Verified(method, credentials, ca, t) ==
    CASE method = "jwt" -> VerifyJwtCredentials(credentials)
      [] method = "mtls" -> VerifyMtlsCertificate(credentials.certificate, ca, t)
      [] method = "oauth" -> VerifyOauthToken(credentials.token)
      [] OTHER -> FALSE

(***************************************************************************)
(* ZeroTrustAuthenticator: the operations                                  *)
(***************************************************************************)
AuthInit ==
    /\ now = 0
    /\ auth_contexts = [ d \in Devices |-> NoContext ]
    /\ auth_metrics = [ auth_attempts |-> 0, auth_success |-> 0, auth_failures |-> 0,
                        token_refreshes |-> 0, trust_violations |-> 0,
                        mtls_verifications |-> 0, continuous_auth_checks |-> 0 ]
    /\ streak = [ d \in Devices |-> -1 ]
    /\ revoked = [ d \in Devices |-> FALSE ]

\* a plausible slip: a device that already has a context keeps it
StoreContextKeepExisting(ctxs, d, c) ==
    IF HasContext(ctxs, d) THEN ctxs ELSE [ ctxs EXCEPT ![d] = c ]

\* self.auth_contexts[device_id] = auth_context
StoreContext(ctxs, d, c) == [ ctxs EXCEPT ![d] = c ]

\* a plausible slip: the success is counted before the token is encoded, and the
\* except clause counts a failure on top of it
AuthenticateDeviceCountsBeforeEncode(d, device_type, credentials, method) ==
    LET verified == Verified(method, credentials, ca_cert, now)
        mtls == method = "mtls" /\ MtlsAttempted(credentials.certificate, ca_cert)
        encoded == JsonSerializable(device_type)
        m1 == Bump(auth_metrics, "auth_attempts")
        m2 == IF mtls THEN Bump(m1, "mtls_verifications") ELSE m1
    IN  /\ auth_contexts' = IF verified
                            THEN StoreContext(auth_contexts, d,
                                              AuthContext(d, device_type, method, now))
                            ELSE auth_contexts
        /\ auth_metrics' = IF verified /\ encoded
                           THEN Bump(m2, "auth_success")
                           ELSE IF verified
                                THEN Bump(Bump(m2, "auth_success"), "auth_failures")
                                ELSE Bump(m2, "auth_failures")
        /\ streak' = IF verified THEN [ streak EXCEPT ![d] = 0 ] ELSE streak
        /\ revoked' = IF verified /\ encoded
                      THEN [ revoked EXCEPT ![d] = FALSE ]
                      ELSE revoked
        /\ ret' = [ op |-> "authenticate_device", device |-> d,
                    replaced |-> auth_contexts[d],
                    token |-> IF verified /\ encoded
                              THEN Token(d, device_type, method, now,
                                         now + TokenLifetimeMinutes, Points(InitialTrust))
                              ELSE NoToken ]
        /\ UNCHANGED <<now, ca_cert, utc_offset, inflight>>
        /\ UNCHANGED seg_vars

authenticate_device(d, device_type, credentials, method) ==
    LET verified == Verified(method, credentials, ca_cert, now)
        mtls == method = "mtls" /\ MtlsAttempted(credentials.certificate, ca_cert)
        encoded == JsonSerializable(device_type)
        m1 == Bump(auth_metrics, "auth_attempts")
        m2 == IF mtls THEN Bump(m1, "mtls_verifications") ELSE m1
    IN  /\ auth_contexts' = IF verified
                            THEN StoreContext(auth_contexts, d,
                                              AuthContext(d, device_type, method, now))
                            ELSE auth_contexts
        /\ auth_metrics' = IF verified /\ encoded
                           THEN Bump(m2, "auth_success")
                           ELSE Bump(m2, "auth_failures")
        /\ streak' = IF verified THEN [ streak EXCEPT ![d] = 0 ] ELSE streak
        /\ revoked' = IF verified /\ encoded
                      THEN [ revoked EXCEPT ![d] = FALSE ]
                      ELSE revoked
        /\ ret' = [ op |-> "authenticate_device", device |-> d,
                    replaced |-> auth_contexts[d],
                    token |-> IF verified /\ encoded
                              THEN Token(d, device_type, method, now,
                                         now + TokenLifetimeMinutes, Points(InitialTrust))
                              ELSE NoToken ]
        /\ UNCHANGED <<now, ca_cert, utc_offset, inflight>>
        /\ UNCHANGED seg_vars

\* the trust update of continuous_authentication_check on an unexpired context c at time t;
\* score is behavior_data.get("anomaly_score", 0), in tenths
TrustUpdate(c, score, t) ==
    IF score > AnomalyThresholdTenths
    THEN [ c EXCEPT !.trust_score = @ - Points(AnomalyPenalty),
                    !.behavior_normal = FALSE ]
    ELSE LET decay == TrustDecayTenthsPerMinute * (t - c.auth_time)
         IN  [ c EXCEPT !.trust_score = IF @ - decay < 0 THEN 0 ELSE @ - decay ]

continuous_authentication_check(d, score) ==
    LET c == auth_contexts[d]
        m1 == Bump(auth_metrics, "continuous_auth_checks")
        live == HasContext(auth_contexts, d) /\ ~IsExpired(c, now)
        c2 == TrustUpdate(c, score, now)
        trusted == live /\ IsTrusted(c2, now, MinTrustScore)
    IN  /\ auth_contexts' = IF live THEN [ auth_contexts EXCEPT ![d] = c2 ]
                            ELSE auth_contexts
        /\ auth_metrics' = IF live /\ ~trusted THEN Bump(m1, "trust_violations") ELSE m1
        /\ streak' = IF ~live THEN streak
                     ELSE IF score > AnomalyThresholdTenths /\ streak[d] >= 0
                          THEN [ streak EXCEPT ![d] = @ + 1 ]
                          ELSE [ streak EXCEPT ![d] = -1 ]
        /\ ret' = [ op |-> "continuous_authentication_check", device |-> d,
                    score |-> score, result |-> trusted ]
        /\ UNCHANGED <<now, ca_cert, utc_offset, inflight, revoked>>
        /\ UNCHANGED seg_vars

(***************************************************************************)
(* continuous_authentication_check run by a thread. The method holds no    *)
(* lock, and between the load of context.trust_score and the store of the  *)
(* new value another thread can run (the interpreter switches threads at   *)
(* the call of max in the decay branch; a free-threaded build runs the     *)
(* threads in parallel): the call is two steps, the read and the store.    *)
(***************************************************************************)
\* lines 216-241 up to the store: count the call, look the context up, return False if it
\* is missing or expired, else compute the new trust_score from the one read
check_read(t, d, score) ==
    LET c == auth_contexts[d]
        live == HasContext(auth_contexts, d) /\ ~IsExpired(c, now)
    IN  /\ inflight[t] = Idle
        /\ auth_metrics' = Bump(auth_metrics, "continuous_auth_checks")
        /\ inflight' = [ inflight EXCEPT ![t] =
                           [ pc |-> IF live THEN "store" ELSE "done",
                             op |-> "continuous_authentication_check",
                             device |-> d, score |-> score, at |-> now, live |-> live,
                             value |-> IF live THEN TrustUpdate(c, score, now).trust_score
                                       ELSE 0 ] ]
        /\ ret' = IF live THEN NoReturn
                  ELSE [ op |-> "continuous_authentication_check", device |-> d,
                         score |-> score, result |-> FALSE ]
        /\ UNCHANGED <<now, ca_cert, utc_offset, auth_contexts, streak, revoked>>
        /\ UNCHANGED seg_vars

\* the store of the computed trust_score (and of behavior_normal = False after an anomaly),
\* then lines 243-252: is_trusted, the violation counter, the return
check_store(t) ==
    LET call == inflight[t]
        d == call.device
        c2 == [ auth_contexts[d] EXCEPT
                  !.trust_score = call.value,
                  !.behavior_normal = IF call.score > AnomalyThresholdTenths THEN FALSE ELSE @ ]
        trusted == IsTrusted(c2, now, MinTrustScore)
    IN  /\ call.pc = "store"
        /\ auth_contexts' = [ auth_contexts EXCEPT ![d] = c2 ]
        /\ auth_metrics' = IF trusted THEN auth_metrics
                           ELSE Bump(auth_metrics, "trust_violations")
        /\ streak' = [ streak EXCEPT ![d] = -1 ]
        /\ inflight' = [ inflight EXCEPT ![t].pc = "done" ]
        /\ ret' = [ op |-> "continuous_authentication_check", device |-> d,
                    score |-> call.score, result |-> trusted ]
        /\ UNCHANGED <<now, ca_cert, utc_offset, revoked>>
        /\ UNCHANGED seg_vars

\* a plausible slip: the renewal skips the is_trusted test
RefreshTokenUnchecked(d) ==
    LET c == auth_contexts[d]
        ok == HasContext(auth_contexts, d)
        c2 == [ c EXCEPT !.auth_time = now, !.expires_at = now + TokenLifetimeMinutes ]
    IN  /\ auth_contexts' = IF ok THEN [ auth_contexts EXCEPT ![d] = c2 ] ELSE auth_contexts
        /\ auth_metrics' = IF ok THEN Bump(auth_metrics, "token_refreshes") ELSE auth_metrics
        /\ streak' = IF ok THEN [ streak EXCEPT ![d] = -1 ] ELSE streak
        /\ ret' = [ op |-> "refresh_token", device |-> d,
                    token |-> IF ok
                              THEN Token(d, c.device_type, c.auth_method, now,
                                         c2.expires_at, c.trust_score)
                              ELSE NoToken ]
        /\ UNCHANGED <<now, ca_cert, utc_offset, inflight, revoked>>
        /\ UNCHANGED seg_vars

\* a plausible slip: the renewal restores full trust, as a re-authentication does
RefreshTokenResetsTrust(d) ==
    LET c == auth_contexts[d]
        ok == HasContext(auth_contexts, d) /\ IsTrusted(c, now, MinTrustScore)
        c2 == [ c EXCEPT !.auth_time = now, !.expires_at = now + TokenLifetimeMinutes,
                         !.trust_score = Points(InitialTrust) ]
    IN  /\ auth_contexts' = IF ok THEN [ auth_contexts EXCEPT ![d] = c2 ] ELSE auth_contexts
        /\ auth_metrics' = IF ok THEN Bump(auth_metrics, "token_refreshes") ELSE auth_metrics
        /\ streak' = IF ok THEN [ streak EXCEPT ![d] = -1 ] ELSE streak
        /\ ret' = [ op |-> "refresh_token", device |-> d,
                    token |-> IF ok
                              THEN Token(d, c.device_type, c.auth_method, now,
                                         c2.expires_at, c2.trust_score)
                              ELSE NoToken ]
        /\ UNCHANGED <<now, ca_cert, utc_offset, inflight, revoked>>
        /\ UNCHANGED seg_vars

\* a plausible slip: the renewal extends expires_at and keeps the old auth_time
RefreshTokenKeepsAuthTime(d) ==
    LET c == auth_contexts[d]
        ok == HasContext(auth_contexts, d) /\ IsTrusted(c, now, MinTrustScore)
        c2 == [ c EXCEPT !.expires_at = now + TokenLifetimeMinutes ]
    IN  /\ auth_contexts' = IF ok THEN [ auth_contexts EXCEPT ![d] = c2 ] ELSE auth_contexts
        /\ auth_metrics' = IF ok THEN Bump(auth_metrics, "token_refreshes") ELSE auth_metrics
        /\ streak' = IF ok THEN [ streak EXCEPT ![d] = -1 ] ELSE streak
        /\ ret' = [ op |-> "refresh_token", device |-> d,
                    token |-> IF ok
                              THEN Token(d, c.device_type, c.auth_method, now,
                                         c2.expires_at, c2.trust_score)
                              ELSE NoToken ]
        /\ UNCHANGED <<now, ca_cert, utc_offset, inflight, revoked>>
        /\ UNCHANGED seg_vars

refresh_token(d) ==
    LET c == auth_contexts[d]
        ok == HasContext(auth_contexts, d) /\ IsTrusted(c, now, MinTrustScore)
        c2 == [ c EXCEPT !.auth_time = now, !.expires_at = now + TokenLifetimeMinutes ]
    IN  /\ auth_contexts' = IF ok THEN [ auth_contexts EXCEPT ![d] = c2 ] ELSE auth_contexts
        /\ auth_metrics' = IF ok THEN Bump(auth_metrics, "token_refreshes") ELSE auth_metrics
        /\ streak' = IF ok THEN [ streak EXCEPT ![d] = -1 ] ELSE streak
        /\ ret' = [ op |-> "refresh_token", device |-> d,
                    token |-> IF ok
                              THEN Token(d, c.device_type, c.auth_method, now,
                                         c2.expires_at, c2.trust_score)
                              ELSE NoToken ]
        /\ UNCHANGED <<now, ca_cert, utc_offset, inflight, revoked>>
        /\ UNCHANGED seg_vars

revoke_authentication(d) ==
    /\ auth_contexts' = [ auth_contexts EXCEPT ![d] = NoContext ]
    /\ streak' = [ streak EXCEPT ![d] = -1 ]
    /\ revoked' = [ revoked EXCEPT ![d] = TRUE ]
    /\ ret' = NoReturn
    /\ UNCHANGED <<now, ca_cert, utc_offset, inflight, auth_metrics>>
    /\ UNCHANGED seg_vars

\* verify_token returns None instead of the claims
NoPayload == [ device_id |-> "none" ]

\* the payload jwt.decode hands back: the claims, without the signature
Payload(token) ==
    [ device_id |-> token.device_id, device_type |-> token.device_type,
      auth_method |-> token.auth_method, iat |-> token.iat, exp |-> token.exp,
      trust_score |-> token.trust_score ]

\* the except clause jwt.decode sends verify_token into at time t ("none": it returns):
\* the signature is verified first, then exp. The key field of a token is the key under
\* which its signature verifies its claims ("none" once the claims were altered).
TokenFault(token, t) ==
    IF token.key # jwt_secret THEN "invalid"
    ELSE IF token.exp <= EpochSeconds(t) THEN "expired"
    ELSE "none"

\* the value verify_token returns at time t: both except clauses return None
VerifyToken(token, t) ==
    IF TokenFault(token, t) = "none" THEN Payload(token) ELSE NoPayload

\* a plausible slip: a token is accepted only while its device holds the session it was
\* issued for
VerifyTokenForLiveSession(token) ==
    LET c == auth_contexts[token.device_id]
        current == HasContext(auth_contexts, token.device_id)
                       /\ token.iat = Timestamp(c.auth_time)
    IN  /\ ret' = [ op |-> "verify_token", token |-> token,
                    result |-> IF current THEN VerifyToken(token, now) ELSE NoPayload ]
        /\ UNCHANGED auth_vars
        /\ UNCHANGED seg_vars

verify_token(token) ==
    /\ ret' = [ op |-> "verify_token", token |-> token, result |-> VerifyToken(token, now) ]
    /\ UNCHANGED auth_vars
    /\ UNCHANGED seg_vars

\* a minute passes
Tick ==
    /\ now' = now + 1
    /\ ret' = NoReturn
    /\ UNCHANGED <<ca_cert, utc_offset, inflight, auth_contexts, auth_metrics, streak, revoked>>
    /\ UNCHANGED seg_vars

(***************************************************************************)
(* The segmentation harness: the calls offered to the engine               *)
(***************************************************************************)
\* zones offered to assign_device_zone and restore_device
AssignZones == {IOT_TRUSTED, IOT_UNTRUSTED, IOT_QUARANTINE, CLOUD_GATEWAY}
RestoreZones == {IOT_UNTRUSTED, IOT_TRUSTED}

\* policies offered to add_policy: all from quarantine to iot_untrusted
CustomPolicy(protos, action, prio, en) ==
    NetworkPolicy("custom", IOT_QUARANTINE, IOT_UNTRUSTED, protos, {0}, action, prio, en)

CustomPolicies ==
    { CustomPolicy({"*"}, "allow", 250, TRUE),
      CustomPolicy({"*"}, "allow", 400, TRUE),
      CustomPolicy({"*"}, "allow", 400, FALSE),
      CustomPolicy({"mqtt"}, "allow", 300, TRUE) }

\* flows offered to evaluate_traffic
EvalFlows == { <<"d1", "d2", "mqtt", 1883>>, <<"d1", "d2", "ssh", 22>> }

\* names offered to remove_policy
RemovableNames == {"custom"}

SegNext ==
    \/ \E d \in Devices, z \in AssignZones : assign_device_zone(d, z)
    \/ \E d \in Devices : quarantine_device(d)
    \/ \E d \in Devices, z \in RestoreZones : restore_device(d, z)
    \/ \E f \in EvalFlows : evaluate_traffic(f[1], f[2], f[3], f[4])
    \/ \E p \in CustomPolicies : add_policy(p)
    \/ \E n \in RemovableNames : remove_policy(n)

\* the segmentation engine alone: the authenticator is constructed and left idle
\* the host runs in UTC and every call runs to its end before the next starts
Sequential == utc_offset = 0 /\ inflight = [ t \in Threads |-> Idle ]

Init == SegInit /\ AuthInit /\ ca_cert = FALSE /\ Sequential /\ ret = NoReturn
Next == SegNext
Spec == Init /\ [][Next]_vars

(***************************************************************************)
(* The flow harness: d1 in iot_trusted sends to d2 in cloud_gateway under a *)
(* policy list that custom rules are added to and rules are removed from   *)
(***************************************************************************)
\* the zone assignments offered
FlowAssignments == { <<"d1", IOT_TRUSTED>>, <<"d2", CLOUD_GATEWAY>> }

\* a custom rule for the pair iot_trusted -> cloud_gateway
FlowPolicy(protos, ports, action, prio, en) ==
    NetworkPolicy("flow", IOT_TRUSTED, CLOUD_GATEWAY, protos, ports, action, prio, en)

\* policies offered to add_policy: a deny above the default allow (priority 100), the same
\* deny disabled, a deny for mqtt on port 22 only, a deny for mqtt at the default's own
\* priority, an allow for ssh/22 below it, and a deny for the opposite direction
FlowPolicies ==
    { FlowPolicy({"*"}, {0}, "deny", 150, TRUE),
      FlowPolicy({"*"}, {0}, "deny", 150, FALSE),
      FlowPolicy({"mqtt"}, {22}, "deny", 150, TRUE),
      FlowPolicy({"mqtt"}, {0}, "deny", 100, TRUE),
      FlowPolicy({"ssh"}, {22}, "allow", 50, TRUE),
      NetworkPolicy("flow", CLOUD_GATEWAY, IOT_TRUSTED, {"*"}, {0}, "deny", 500, TRUE) }

\* names offered to remove_policy: the custom rules and the default gateway-ingress rule
FlowRemovableNames == {"flow", "iot_trusted_to_gateway"}

FlowNext ==
    \/ \E a \in FlowAssignments : assign_device_zone(a[1], a[2])
    \/ \E pr \in Protocols, po \in Ports : evaluate_traffic("d1", "d2", pr, po)
    \/ \E p \in FlowPolicies : add_policy(p)
    \/ \E n \in FlowRemovableNames : remove_policy(n)

FlowSpec == Init /\ [][FlowNext]_vars

(***************************************************************************)
(* The reachability harness: the default policies only; the two devices    *)
(* are placed in any zones and flows between them are evaluated            *)
(***************************************************************************)
\* protocols and ports presented: one pair that each default allow rule admits
\* (mqtt/1883, https/443, ssh/22) and a protocol and a port that none names
ReachProtocols == {"mqtt", "https", "ssh", "telnet"}
ReachPorts == {1883, 443, 22, 23}

\* the devices are placed first, the flows are evaluated afterwards
ReachNext ==
    \/ /\ EvalCalls = 0
       /\ \E d \in Devices, z \in SecurityZone : assign_device_zone(d, z)
    \/ \E pr \in ReachProtocols, po \in ReachPorts : evaluate_traffic("d1", "d2", pr, po)

ReachSpec == Init /\ [][ReachNext]_vars

(***************************************************************************)
(* The zone-map harness: devices are assigned, quarantined and restored,   *)
(* and one flow is evaluated against the map                               *)
(***************************************************************************)
\* zones offered to assign_device_zone: none of them is a zone that restore_device
\* is asked for, so a device in one of those has been restored
ZoneAssignZones == {IOT_TRUSTED, CLOUD_GATEWAY}
\* targets offered to restore_device: the default and one named by the caller
ZoneRestoreZones == {RestoreDefaultZone, "dmz"}

ZoneNext ==
    \/ \E d \in Devices, z \in ZoneAssignZones : assign_device_zone(d, z)
    \/ \E d \in Devices : quarantine_device(d)
    \/ \E d \in Devices, z \in ZoneRestoreZones : restore_device(d, z)
    \/ evaluate_traffic("d1", "d2", "mqtt", 1883)

ZoneSpec == Init /\ [][ZoneNext]_vars

(***************************************************************************)
(* The snapshot harness: thread t1 evaluates flows from d1 to d2 step by   *)
(* step while thread t2 adds and removes policies, each of its calls whole  *)
(***************************************************************************)
\* the policy offered to add_policy: a deny that carries the name of the default
\* gateway-ingress rule, so that remove_policy of that name takes two policies away
SnapshotPolicies ==
    { NetworkPolicy("iot_trusted_to_gateway", IOT_TRUSTED, CLOUD_GATEWAY,
                    {"*"}, {0}, "deny", 150, TRUE) }

SnapshotRemovableNames == {"iot_trusted_to_gateway"}

SnapshotNext ==
    \/ \E a \in FlowAssignments : assign_device_zone(a[1], a[2])
    \/ \E pr \in Protocols, po \in Ports : evaluate_lookup("t1", "d1", "d2", pr, po)
    \/ evaluate_snapshot("t1")
    \/ evaluate_decide("t1")
    \/ \E p \in SnapshotPolicies : add_policy(p)
    \/ \E n \in SnapshotRemovableNames : remove_policy(n)

SnapshotSpec == Init /\ [][SnapshotNext]_vars

(***************************************************************************)
(* The ledger harness: every operation of the segmentation engine, with    *)
(* flows that are allowed, denied by a rule, denied by default and         *)
(* unresolved                                                              *)
(***************************************************************************)
\* d1 stays in iot_trusted; d2 is a gateway (allowed, or default deny for ssh)
\* or an untrusted IoT device (lateral movement)
MetricsAssignments ==
    { <<"d1", IOT_TRUSTED>>, <<"d2", CLOUD_GATEWAY>>, <<"d2", IOT_UNTRUSTED>> }

LedgerNext ==
    \/ \E a \in MetricsAssignments : assign_device_zone(a[1], a[2])
    \/ quarantine_device("d2")
    \/ restore_device("d2", RestoreDefaultZone)
    \/ \E f \in EvalFlows : evaluate_traffic(f[1], f[2], f[3], f[4])
    \/ \E p \in SnapshotPolicies : add_policy(p)
    \/ \E n \in SnapshotRemovableNames : remove_policy(n)

LedgerSpec == Init /\ [][LedgerNext]_vars

(***************************************************************************)
(* The authenticator harness                                               *)
(***************************************************************************)
\* at most this many authenticate_device calls in a behaviour
MaxAuthAttempts == 2
\* at most this many continuous_authentication_check calls in a behaviour
MaxChecks == 2
\* at most this many successful refresh_token calls in a behaviour
MaxRefreshes == 1
\* the clock stops here
MaxTime == 3

\* devices that authenticate
AuthDevices == {"d1"}
\* device_type values presented
DeviceTypes == {"camera"}
\* method values presented ("basic" is no known method)
MethodsOffered == AuthMethods \cup {"basic"}
\* the credential bundles presented
CredentialsOffered ==
    { Credentials(TRUE, "tok", <<0, 1>>),
      Credentials(FALSE, "", "none") }
\* anomaly_score values presented, in tenths (0 also stands for a missing key)
ScoresOffered == {0, 5, 9}

AuthNext ==
    \/ /\ auth_metrics.auth_attempts < MaxAuthAttempts
       /\ \E d \in AuthDevices, ty \in DeviceTypes, cr \in CredentialsOffered,
             me \in MethodsOffered : authenticate_device(d, ty, cr, me)
    \/ /\ auth_metrics.continuous_auth_checks < MaxChecks
       /\ \E d \in AuthDevices, sc \in ScoresOffered : continuous_authentication_check(d, sc)
    \/ /\ auth_metrics.token_refreshes < MaxRefreshes
       /\ \E d \in AuthDevices : refresh_token(d)
    \/ \E d \in AuthDevices : revoke_authentication(d)
    \/ now < MaxTime /\ Tick

\* the authenticator is constructed with a CA certificate
AuthSpecInit == SegInit /\ AuthInit /\ ca_cert = TRUE /\ Sequential /\ ret = NoReturn
AuthSpec == AuthSpecInit /\ [][AuthNext]_vars

(***************************************************************************)
(* The penalty harness: one jwt session and a long run of checks           *)
(***************************************************************************)
\* at most this many authenticate_device calls in a behaviour
MaxPenaltyAuth == 1
\* at most this many continuous_authentication_check calls in a behaviour
MaxPenaltyChecks == 6

PenaltyNext ==
    \/ /\ auth_metrics.auth_attempts < MaxPenaltyAuth
       /\ \E d \in AuthDevices, ty \in DeviceTypes, cr \in CredentialsOffered :
             authenticate_device(d, ty, cr, "jwt")
    \/ /\ auth_metrics.continuous_auth_checks < MaxPenaltyChecks
       /\ \E d \in AuthDevices, sc \in ScoresOffered : continuous_authentication_check(d, sc)
    \/ /\ auth_metrics.token_refreshes < MaxRefreshes
       /\ \E d \in AuthDevices : refresh_token(d)
    \/ \E d \in AuthDevices : revoke_authentication(d)
    \/ now < MaxTime /\ Tick

PenaltySpec == AuthSpecInit /\ [][PenaltyNext]_vars

(***************************************************************************)
(* The decay harness: one session, checked once more than the penalty      *)
(* harness allows, with scores below, at and above the anomaly threshold   *)
(***************************************************************************)
DecayNext ==
    \/ /\ auth_metrics.auth_attempts < MaxPenaltyAuth
       /\ \E d \in AuthDevices, ty \in DeviceTypes, cr \in CredentialsOffered :
             authenticate_device(d, ty, cr, "jwt")
    \/ /\ auth_metrics.continuous_auth_checks <= MaxPenaltyChecks
       /\ \E d \in AuthDevices, sc \in ScoresOffered : continuous_authentication_check(d, sc)
    \/ now < MaxTime /\ Tick

DecaySpec == AuthSpecInit /\ [][DecayNext]_vars

(***************************************************************************)
(* The session harness: one device, a device_type that json cannot encode  *)
(***************************************************************************)
\* device_type values presented: a str, and bytes
SessionDeviceTypes == {"camera", Unserializable}
\* anomaly_score values presented, in tenths
SessionScores == {0, 9}

SessionNext ==
    \/ /\ auth_metrics.auth_attempts < MaxAuthAttempts
       /\ \E d \in AuthDevices, ty \in SessionDeviceTypes, cr \in CredentialsOffered :
             authenticate_device(d, ty, cr, "jwt")
    \/ /\ auth_metrics.continuous_auth_checks < MaxChecks
       /\ \E d \in AuthDevices, sc \in SessionScores : continuous_authentication_check(d, sc)
    \/ /\ auth_metrics.token_refreshes < MaxRefreshes
       /\ \E d \in AuthDevices : refresh_token(d)
    \/ \E d \in AuthDevices : revoke_authentication(d)
    \/ now < MaxTime /\ Tick

SessionSpec == AuthSpecInit /\ [][SessionNext]_vars

(***************************************************************************)
(* The race harness: a session is opened, then each thread makes one       *)
(* continuous_authentication_check on it, the two calls overlapping freely *)
(***************************************************************************)
NoCallBegun == \A t \in Threads : inflight[t] = Idle

RaceNext ==
    \/ /\ NoCallBegun
       /\ auth_metrics.auth_attempts < MaxPenaltyAuth
       /\ \E d \in AuthDevices, ty \in DeviceTypes, cr \in CredentialsOffered :
             authenticate_device(d, ty, cr, "jwt")
    \/ \E t \in Threads, d \in AuthDevices, sc \in ScoresOffered : check_read(t, d, sc)
    \/ \E t \in Threads : check_store(t)
    \/ now < MaxTime /\ Tick

RaceSpec == AuthSpecInit /\ [][RaceNext]_vars

(***************************************************************************)
(* The dispatch harness: the authenticator is constructed with or without  *)
(* a CA certificate and is offered every method with every kind of bundle  *)
(***************************************************************************)
\* certificates presented: none, bytes that do not parse, and one valid from minute 1 to 2
DispatchCertificateKinds == {"absent", "unparsable", "dated"}
DispatchCertificate(kind) ==
    CASE kind = "absent" -> "none"
      [] kind = "unparsable" -> "garbage"
      [] OTHER -> <<1, 2>>
\* OAuth tokens presented: none, the empty string, a non-empty string
DispatchTokens == {"none", "", "tok"}

\* the bundles presented with a certificate of one kind
DispatchCredentials(kind) ==
    { Credentials(k, tok, DispatchCertificate(kind)) : k \in BOOLEAN, tok \in DispatchTokens }

DispatchNext ==
    \/ /\ auth_metrics.auth_attempts < MaxPenaltyAuth
       /\ \E d \in AuthDevices, ty \in SessionDeviceTypes, kind \in DispatchCertificateKinds,
             me \in MethodsOffered :
             \E cr \in DispatchCredentials(kind) : authenticate_device(d, ty, cr, me)
    \/ now < MaxTime /\ Tick

DispatchInit ==
    /\ SegInit /\ AuthInit /\ ca_cert \in BOOLEAN
    /\ Sequential
    /\ ret = NoReturn

DispatchSpec == DispatchInit /\ [][DispatchNext]_vars

(***************************************************************************)
(* The metrics harness: one segmentation engine and one authenticator,     *)
(* driven one after the other, so that every counter of both is incremented *)
(***************************************************************************)
\* the engine is driven first, the authenticator after it
MetricsNext ==
    \/ /\ auth_metrics.auth_attempts = 0
       /\ \E a \in MetricsAssignments : assign_device_zone(a[1], a[2])
    \/ /\ auth_metrics.auth_attempts = 0
       /\ \E f \in EvalFlows : evaluate_traffic(f[1], f[2], f[3], f[4])
    \/ /\ auth_metrics.auth_attempts = 0
       /\ quarantine_device("d2")
    \/ /\ auth_metrics.auth_attempts < MaxAuthAttempts
       /\ \E d \in AuthDevices, ty \in DeviceTypes, cr \in CredentialsOffered,
             me \in {"jwt", "mtls"} : authenticate_device(d, ty, cr, me)
    \/ \E d \in AuthDevices : revoke_authentication(d)
    \/ /\ auth_metrics.continuous_auth_checks < MaxChecks
       /\ \E d \in AuthDevices, sc \in SessionScores : continuous_authentication_check(d, sc)
    \/ /\ auth_metrics.token_refreshes < MaxRefreshes
       /\ \E d \in AuthDevices : refresh_token(d)

MetricsSpec == AuthSpecInit /\ [][MetricsNext]_vars

(***************************************************************************)
(* The token harness: tokens are issued and presented to verify_token      *)
(***************************************************************************)
\* keys a presented token's signature verifies under: the authenticator's, another
\* party's, none (claims altered after signing)
TokenKeys == {jwt_secret, "other", "none"}

\* tokens presented to verify_token: those authenticate_device issues for d1 at some
\* minute, as issued, re-signed with another key, or altered
TokensOffered ==
    { [ Token("d1", "camera", "jwt", i, i + TokenLifetimeMinutes, Points(InitialTrust))
          EXCEPT !.key = k ] : i \in 0..MaxTime, k \in TokenKeys }

TokenNext ==
    \/ /\ auth_metrics.auth_attempts < MaxAuthAttempts
       /\ \E d \in AuthDevices, ty \in DeviceTypes, cr \in CredentialsOffered :
             authenticate_device(d, ty, cr, "jwt")
    \/ \E tok \in TokensOffered : tok.iat <= Timestamp(now) /\ verify_token(tok)
    \/ \E d \in AuthDevices : revoke_authentication(d)
    \/ now < MaxTime /\ Tick

\* the host's local time is UTC or one hour east of it (minutes)
UtcOffsetsOffered == {0, 60}

TokenSpecInit ==
    /\ SegInit /\ AuthInit /\ ca_cert = TRUE
    /\ utc_offset \in UtcOffsetsOffered
    /\ inflight = [ t \in Threads |-> Idle ]
    /\ ret = NoReturn

TokenSpec == TokenSpecInit /\ [][TokenNext]_vars

(***************************************************************************)
(* The stale-token harness: tokens are presented while the session they    *)
(* were issued for is checked, renewed, replaced or revoked                *)
(***************************************************************************)
\* at most this many continuous checks in a behaviour of this harness
MaxStaleChecks == 1

StaleTokenNext ==
    \/ /\ auth_metrics.auth_attempts < MaxAuthAttempts
       /\ \E d \in AuthDevices, ty \in DeviceTypes, cr \in CredentialsOffered :
             authenticate_device(d, ty, cr, "jwt")
    \/ /\ auth_metrics.continuous_auth_checks < MaxStaleChecks
       /\ \E d \in AuthDevices, sc \in SessionScores : continuous_authentication_check(d, sc)
    \/ /\ auth_metrics.token_refreshes < MaxRefreshes
       /\ \E d \in AuthDevices : refresh_token(d)
    \/ \E tok \in TokensOffered : tok.iat <= Timestamp(now) /\ verify_token(tok)
    \/ \E d \in AuthDevices : revoke_authentication(d)
    \/ now < MaxTime /\ Tick

StaleTokenSpec == TokenSpecInit /\ [][StaleTokenNext]_vars

(***************************************************************************)
(* Claims about the segmentation engine                                    *)
(***************************************************************************)
\* the last call was evaluate_traffic; ret holds its flow and the value it returned, and
\* device_zones and policies are those the call saw (every other call resets ret)
Evaluated == ret.op = "evaluate_traffic"

Unresolved(s, d) == device_zones[s] = NoZone \/ device_zones[d] = NoZone

\* the policy list is the default set followed by the policies add_policy appended
DefaultsThenAdded == policies = DefaultPolicies \o AddedPolicies

QuarantineFlow(s, d) ==
    /\ device_zones[s] = IOT_QUARANTINE
    /\ device_zones[d] \notin {NoZone, IOT_QUARANTINE}

\* C1: fail-closed on an unresolved zone. In every reachable state (any zone map, defaults plus
\* added policies), evaluate_traffic for a flow whose source or destination device has no zone
\* returns deny: both for the call just made and for every call that could be made now.
C1_FailClosedOnUnresolvedZone ==
    /\ Evaluated /\ Unresolved(ret.src, ret.dst) => ret.result = FALSE
    /\ \A s \in Devices, d \in Devices, pr \in Protocols, po \in Ports :
          Unresolved(s, d) =>
              ~EvalOutcome(device_zones, policies, s, d, pr, po).allowed

\* C1 witness: an evaluate_traffic call with an unassigned source and an assigned destination
\* returned deny while an added policy was installed.
C1_Witness ==
    /\ Evaluated
    /\ device_zones[ret.src] = NoZone
    /\ device_zones[ret.dst] # NoZone
    /\ AddedPolicies # << >>
    /\ ret.result = FALSE

\* C2 (as claimed): quarantine isolation always wins. With the default set installed and any
\* policies appended by add_policy, evaluate_traffic from a device in iot_quarantine to a
\* device in any other zone returns deny.
C2_QuarantineAlwaysDenied ==
    (Evaluated /\ DefaultsThenAdded /\ QuarantineFlow(ret.src, ret.dst)) => ret.result = FALSE

\* every appended policy is an allow rule out of quarantine with a priority below 300
OnlyLowPriorityQuarantineAllows ==
    \A i \in 1..Len(AddedPolicies) :
        /\ AddedPolicies[i].action = "allow"
        /\ AddedPolicies[i].source_zone = IOT_QUARANTINE
        /\ AddedPolicies[i].priority < 300

\* C3: priority-300 invariant. With the default set installed and only allow policies out of
\* quarantine with priority below 300 appended, every flow from iot_quarantine to any other
\* zone is denied, for every protocol and port: for the call just made, for every call on
\* the devices, and for every one of the nine destination zones.
C3_Priority300Invariant ==
    (DefaultsThenAdded /\ OnlyLowPriorityQuarantineAllows) =>
        /\ Evaluated /\ QuarantineFlow(ret.src, ret.dst) => ret.result = FALSE
        /\ \A s \in Devices, d \in Devices, pr \in Protocols, po \in Ports :
              QuarantineFlow(s, d) =>
                  ~EvalOutcome(device_zones, policies, s, d, pr, po).allowed
        /\ \A z \in SecurityZone \ {IOT_QUARANTINE}, pr \in Protocols, po \in Ports :
              ~Decide(policies, IOT_QUARANTINE, z, pr, po).allowed

\* C3 witness: a flow out of quarantine was denied although an appended allow policy of
\* priority below 300 matches it.
C3_Witness ==
    /\ Evaluated
    /\ DefaultsThenAdded
    /\ OnlyLowPriorityQuarantineAllows
    /\ QuarantineFlow(ret.src, ret.dst)
    /\ \E i \in 1..Len(AddedPolicies) :
          /\ AddedPolicies[i].enabled
          /\ Matches(AddedPolicies[i], device_zones[ret.src], device_zones[ret.dst],
                     ret.protocol, ret.port)
    /\ ret.result = FALSE

LateralFlow(src_zone, dst_zone) ==
    /\ src_zone \in LateralZones
    /\ dst_zone \in LateralZones
    /\ src_zone # dst_zone

\* C4: lateral movement is blocked. Under the default policy set, every evaluate_traffic call
\* between devices in distinct zones of {iot_trusted, iot_untrusted} returns deny and raises
\* lateral_movement_blocked by exactly 1; and for every protocol and port such a flow is
\* decided deny by a policy, with the counter raised by 1.
C4_LateralMovementBlocked ==
    [][ /\ ( /\ ret'.op = "evaluate_traffic"
             /\ policies = DefaultPolicies
             /\ LateralFlow(device_zones[ret'.src], device_zones[ret'.dst]) )
          => /\ ret'.result = FALSE
             /\ seg_metrics'.lateral_movement_blocked
                    = seg_metrics.lateral_movement_blocked + 1
        /\ policies = DefaultPolicies =>
              \A sz \in LateralZones, dz \in LateralZones, pr \in Protocols, po \in Ports :
                  LateralFlow(sz, dz) =>
                      LET o == Decide(policies, sz, dz, pr, po)
                      IN  /\ ~o.allowed
                          /\ MetricsAfter(seg_metrics, o, sz, dz).lateral_movement_blocked
                                 = seg_metrics.lateral_movement_blocked + 1
      ]_vars

\* C4 witness: under the default set a flow from iot_trusted to iot_untrusted was denied and
\* counted as blocked lateral movement.
C4_Witness ==
    /\ Evaluated
    /\ policies = DefaultPolicies
    /\ device_zones[ret.src] = IOT_TRUSTED
    /\ device_zones[ret.dst] = IOT_UNTRUSTED
    /\ ret.result = FALSE
    /\ seg_metrics.lateral_movement_blocked = 1

(***************************************************************************)
(* Claims about the authenticator                                          *)
(***************************************************************************)
Authenticated == ret.op = "authenticate_device" /\ ret.token.device_id # "none"
Checked == ret.op = "continuous_authentication_check"
Refreshed == ret.op = "refresh_token" /\ ret.token.device_id # "none"
RefreshRefused == ret.op = "refresh_token" /\ ret.token.device_id = "none"

\* C5: re-authentication resets trust. After every authenticate_device call that returned a
\* token, the device's context is the freshly built one (trust_score 100, behavior_normal
\* true, auth_time now), whatever context the call found, and the token carries trust 100.
C5_ReauthenticationResetsTrust ==
    Authenticated =>
        LET c == auth_contexts[ret.device]
        IN  /\ c.trust_score = Points(InitialTrust)
            /\ c.behavior_normal
            /\ c = AuthContext(ret.device, ret.token.device_type, ret.token.auth_method, now)
            /\ ret.token.trust_score = Points(InitialTrust)

\* C5 witness: a successful authenticate_device replaced a degraded context (trust below 100,
\* behavior_normal false).
C5_Witness ==
    /\ Authenticated
    /\ ret.replaced.device_id # "none"
    /\ ret.replaced.trust_score < Points(InitialTrust)
    /\ ~ret.replaced.behavior_normal
    /\ auth_contexts[ret.device].trust_score = Points(InitialTrust)

\* max(0, 100 - 20k), in tenths
PenaltyFormula(k) ==
    IF InitialTrust - AnomalyPenalty * k < 0 THEN 0
    ELSE Points(InitialTrust - AnomalyPenalty * k)

\* C6 (as claimed): anomaly penalty arithmetic. After k consecutive anomalous checks on an
\* unexpired, freshly created session with nothing else in between, trust_score is
\* max(0, 100 - 20k), for every k >= 0.
C6_PenaltyArithmetic ==
    \A d \in AuthDevices :
        streak[d] >= 0 => auth_contexts[d].trust_score = PenaltyFormula(streak[d])

\* C7 (as claimed): trust score range. Every stored AuthContext has 0 <= trust_score <= 100.
C7_TrustScoreInRange ==
    \A d \in AuthDevices :
        HasContext(auth_contexts, d) =>
            /\ auth_contexts[d].trust_score >= 0
            /\ auth_contexts[d].trust_score <= Points(InitialTrust)

\* the context of d is one that only anomalous checks have touched, and it has not expired
InAnomalyRun(d) == streak[d] >= 0 /\ ~IsExpired(auth_contexts[d], now)

\* C8 (as claimed): in a run of anomalous checks on a fresh unexpired session the device is
\* untrusted exactly when trust_score < 70, i.e. from the 2nd check on.
C8_UntrustedOnlyBelowThreshold ==
    \A d \in AuthDevices :
        InAnomalyRun(d) =>
            ( IsTrusted(auth_contexts[d], now, MinTrustScore)
                <=> auth_contexts[d].trust_score >= Points(MinTrustScore) )

\* C8 (amended): in a run of anomalous checks on a fresh unexpired session the device is
\* untrusted from the 1st check on (trust 80), because that check clears behavior_normal;
\* trust_score is below 70 from the 2nd check on; and every such check returns false.
C8_UntrustedFromFirstAnomaly ==
    \A d \in AuthDevices :
        InAnomalyRun(d) =>
            /\ IsTrusted(auth_contexts[d], now, MinTrustScore) <=> streak[d] = 0
            /\ streak[d] >= 1 => ~auth_contexts[d].behavior_normal
            /\ auth_contexts[d].trust_score < Points(MinTrustScore) <=> streak[d] >= 2
            /\ (Checked /\ ret.device = d /\ streak[d] >= 1) => ret.result = FALSE

\* C8 witness: the 1st anomalous check on a fresh session returned false with trust at 80.
C8_Witness ==
    /\ Checked
    /\ InAnomalyRun(ret.device)
    /\ streak[ret.device] = 1
    /\ auth_contexts[ret.device].trust_score = Points(80)
    /\ ret.result = FALSE

\* C9: refresh_token on a device whose trust_score is below 70 returns no token and leaves
\* the context store and token_refreshes unchanged, expired or not.
C9_RefreshRefusedBelowThreshold ==
    [][ \A d \in AuthDevices :
          ( /\ ret'.op = "refresh_token"
            /\ ret'.device = d
            /\ HasContext(auth_contexts, d)
            /\ auth_contexts[d].trust_score < Points(MinTrustScore) )
          => /\ ret'.token = NoToken
             /\ auth_contexts' = auth_contexts
             /\ auth_metrics'.token_refreshes = auth_metrics.token_refreshes
      ]_vars

\* C9 witness: refresh_token returned no token for an unexpired session with trust below 70.
C9_Witness ==
    /\ RefreshRefused
    /\ HasContext(auth_contexts, ret.device)
    /\ ~IsExpired(auth_contexts[ret.device], now)
    /\ auth_contexts[ret.device].trust_score < Points(MinTrustScore)

\* C10: refresh carries trust forward. A refresh_token call that returns a token sets
\* auth_time to now and expires_at to now + token_lifetime and changes no other field of the
\* context; the token carries the context's trust_score, device_type and auth_method and the
\* new issue and expiry times.
C10_RefreshCarriesTrustForward ==
    [][ \A d \in AuthDevices :
          ( /\ ret'.op = "refresh_token"
            /\ ret'.device = d
            /\ ret'.token.device_id # "none" )
          => /\ auth_contexts'[d] =
                    [ auth_contexts[d] EXCEPT !.auth_time = now,
                                              !.expires_at = now + TokenLifetimeMinutes ]
             /\ ret'.token.trust_score = auth_contexts[d].trust_score
             /\ ret'.token.device_type = auth_contexts[d].device_type
             /\ ret'.token.auth_method = auth_contexts[d].auth_method
             /\ ret'.token.iat = Timestamp(now)
             /\ ret'.token.exp = Timestamp(now + TokenLifetimeMinutes)
      ]_vars

\* C10 witness: a token was issued by refresh_token for a session whose trust had decayed
\* below 100; token and context carry the decayed score.
C10_Witness ==
    /\ Refreshed
    /\ ret.token.trust_score < Points(InitialTrust)
    /\ auth_contexts[ret.device].trust_score = ret.token.trust_score
    /\ auth_contexts[ret.device].behavior_normal
    /\ auth_contexts[ret.device].auth_time = now
    /\ now > 0

\* C11 (as claimed): verify_token classifies failures. Whenever verify_token rejects a token
\* because its expires_at has passed, the value it returns differs from the value it returns
\* for a tampered or wrongly signed token.
C11_ExpiredDistinctFromInvalid ==
    (ret.op = "verify_token" /\ TokenFault(ret.token, now) = "expired") =>
        \A tok \in TokensOffered :
            TokenFault(tok, now) = "invalid" => VerifyToken(tok, now) # ret.result

AuthFailed(d) ==
    ret'.op = "authenticate_device" /\ ret'.device = d /\ ret'.token = NoToken

\* C12 (as claimed): failed authentication does not touch state. Every authenticate_device
\* call that reports failure (returns no token) leaves the auth context store as it was: no
\* context is created for the device and an existing one is not modified.
C12_FailedAuthLeavesStore ==
    [][ \A d \in AuthDevices : AuthFailed(d) => auth_contexts' = auth_contexts ]_vars

\* C13 (as claimed): revocation. revoke_authentication(d) leaves d without a context, and is
\* a no-op when d had none; from then until an authenticate_device(d) returns a token, every continuous_authentication_check(d, ...) returns false and leaves
\* the context store as it was, and every refresh_token(d) returns no token.
C13_RevokedUntilReauthenticated ==
    [][ \A d \in AuthDevices :
          /\ revoke_authentication(d) =>
                /\ ~HasContext(auth_contexts', d)
                /\ ~HasContext(auth_contexts, d) =>
                      auth_contexts' = auth_contexts /\ auth_metrics' = auth_metrics
          /\ ( /\ revoked[d]
               /\ ret'.op = "continuous_authentication_check"
               /\ ret'.device = d )
             => ret'.result = FALSE /\ auth_contexts' = auth_contexts
          /\ (revoked[d] /\ ret'.op = "refresh_token" /\ ret'.device = d)
             => ret'.token = NoToken /\ auth_contexts' = auth_contexts
      ]_vars

(***************************************************************************)
(* Claims about the counters of the segmentation engine                    *)
(***************************************************************************)
\* the step is an evaluate_traffic call
EvalStep == ret'.op = "evaluate_traffic"

\* the counters of policy-derived denials
PolicyDenialCounters == {"packets_denied", "zone_violations", "lateral_movement_blocked"}

\* C14 (as claimed): configuration faults are counted apart from policy denials. An
\* evaluate_traffic call in which the source or the destination has no zone raises a counter
\* of its own (not one of the four traffic counters) by 1 and leaves packets_denied,
\* zone_violations and lateral_movement_blocked as they were.
C14_ConfigFaultCountedApart ==
    [][ (EvalStep /\ Unresolved(ret'.src, ret'.dst)) =>
          /\ \E k \in DOMAIN seg_metrics \ (PolicyDenialCounters \cup {"packets_allowed"}) :
                seg_metrics'[k] = seg_metrics[k] + 1
          /\ \A k \in PolicyDenialCounters : seg_metrics'[k] = seg_metrics[k]
      ]_vars

\* C15 (as claimed): lateral-movement counting covers both deny paths. Every evaluate_traffic
\* call that returns deny while source and destination zones are both in {iot_trusted,
\* iot_untrusted} (the same zone or different ones, any policy set) raises
\* lateral_movement_blocked by 1, whether a deny policy or the default deny decided.
C15_LateralCountedOnEveryDeny ==
    [][ ( /\ EvalStep
          /\ ret'.result = FALSE
          /\ device_zones[ret'.src] \in LateralZones
          /\ device_zones[ret'.dst] \in LateralZones )
        => seg_metrics'.lateral_movement_blocked = seg_metrics.lateral_movement_blocked + 1
      ]_vars

\* the indices of the enabled policies of pols whose zone pair is (sz, dz) and whose protocol
\* and port predicates admit the flow
EnabledMatching(pols, sz, dz, pr, po) ==
    { i \in 1..Len(pols) :
        /\ pols[i].enabled
        /\ pols[i].source_zone = sz /\ pols[i].dest_zone = dz
        /\ (pr \in pols[i].allowed_protocols \/ "*" \in pols[i].allowed_protocols)
        /\ (po \in pols[i].allowed_ports \/ 0 \in pols[i].allowed_ports) }

\* the enabled policies that match the flow of the evaluate_traffic call of this step
StepMatching ==
    EnabledMatching(policies, device_zones[ret'.src], device_zones[ret'.dst],
                    ret'.protocol, ret'.port)

\* C16: default deny and its counter. An evaluate_traffic call with both zones resolved and
\* no enabled policy matching the flow returns deny and raises zone_violations by 1; a call
\* that some enabled policy matches (explicit deny or allow) leaves zone_violations as it was.
C16_DefaultDenyCountsZoneViolation ==
    [][ (EvalStep /\ ~Unresolved(ret'.src, ret'.dst)) =>
          IF StepMatching = {}
          THEN /\ ret'.result = FALSE
               /\ seg_metrics'.zone_violations = seg_metrics.zone_violations + 1
          ELSE seg_metrics'.zone_violations = seg_metrics.zone_violations
      ]_vars

\* C16 witness: a flow from iot_trusted to cloud_gateway that no policy matches (ssh on port
\* 22) was denied by default and counted as a zone violation.
C16_Witness ==
    /\ Evaluated
    /\ device_zones[ret.src] = IOT_TRUSTED
    /\ device_zones[ret.dst] = CLOUD_GATEWAY
    /\ EnabledMatching(policies, IOT_TRUSTED, CLOUD_GATEWAY, ret.protocol, ret.port) = {}
    /\ ret.result = FALSE
    /\ seg_metrics.zone_violations = 1

\* the members of M whose priority is maximal in M
TopPriority(pols, M) == { i \in M : \A j \in M : pols[j].priority <= pols[i].priority }

\* the enabled policies that match the flow of the evaluate_traffic call just made
CallMatching ==
    EnabledMatching(policies, device_zones[ret.src], device_zones[ret.dst],
                    ret.protocol, ret.port)

\* C17: highest priority decides. For every policy list (defaults, with rules added and
\* removed) and every evaluate_traffic call with both zones resolved: if the set M of
\* enabled policies whose zone pair, protocol predicate and port predicate match the flow
\* is not empty, the verdict is the action of a policy of M with maximal priority (allow
\* iff that action is allow). Disabled policies and policies that do not match are not in
\* M, so they have no part in the verdict.
C17_HighestPriorityDecides ==
    (Evaluated /\ ~Unresolved(ret.src, ret.dst) /\ CallMatching # {}) =>
        \E i \in TopPriority(policies, CallMatching) :
            ret.result = (policies[i].action = "allow")

\* C17 witness: an added deny of higher priority decided a flow that a default allow of
\* lower priority also matches.
C17_Witness ==
    /\ Evaluated
    /\ ~Unresolved(ret.src, ret.dst)
    /\ \E i \in CallMatching, j \in CallMatching :
          /\ i > j
          /\ policies[i].priority > policies[j].priority
          /\ policies[i].action = "deny"
          /\ policies[j].action = "allow"
    /\ ret.result = FALSE

\* the protocols and ports of gateway ingress
GatewayProtocols == {"mqtt", "coap", "https"}
GatewayPorts == {1883, 5683, 8883, 443}

\* C18: gateway ingress is permitted. Under the default policy set, every evaluate_traffic
\* call from a device in iot_trusted to a device in cloud_gateway with a protocol of {mqtt,
\* coap, https} and a port of {1883, 5683, 8883, 443} returns allow and raises
\* packets_allowed by 1; and each of the twelve protocol/port combinations is decided allow,
\* with packets_allowed raised by 1.
C18_GatewayIngressPermitted ==
    [][ policies = DefaultPolicies =>
          /\ ( /\ EvalStep
               /\ device_zones[ret'.src] = IOT_TRUSTED
               /\ device_zones[ret'.dst] = CLOUD_GATEWAY
               /\ ret'.protocol \in GatewayProtocols
               /\ ret'.port \in GatewayPorts )
             => /\ ret'.result = TRUE
                /\ seg_metrics'.packets_allowed = seg_metrics.packets_allowed + 1
          /\ \A pr \in GatewayProtocols, po \in GatewayPorts :
                LET o == Decide(policies, IOT_TRUSTED, CLOUD_GATEWAY, pr, po)
                IN  /\ o.allowed
                    /\ MetricsAfter(seg_metrics, o, IOT_TRUSTED, CLOUD_GATEWAY).packets_allowed
                           = seg_metrics.packets_allowed + 1
      ]_vars

\* C18 witness: under the default set, mqtt on port 1883 from iot_trusted to cloud_gateway
\* was allowed and counted.
C18_Witness ==
    /\ Evaluated
    /\ policies = DefaultPolicies
    /\ device_zones[ret.src] = IOT_TRUSTED
    /\ device_zones[ret.dst] = CLOUD_GATEWAY
    /\ ret.protocol = "mqtt" /\ ret.port = 1883
    /\ ret.result = TRUE
    /\ seg_metrics.packets_allowed = 1

(***************************************************************************)
(* Claims about the life of a session                                      *)
(***************************************************************************)
\* C19: expiry invariant. In every reachable state every stored AuthContext has
\* expires_at = auth_time + token_lifetime: authenticate_device and refresh_token set both
\* fields together, and continuous_authentication_check changes neither.
C19_ExpiryInvariant ==
    \A d \in Devices :
        HasContext(auth_contexts, d) =>
            auth_contexts[d].expires_at = auth_contexts[d].auth_time + TokenLifetimeMinutes

\* C19 witness: a session that was checked and then renewed by refresh_token after time had
\* passed carries the new auth_time and the matching expires_at.
C19_Witness ==
    /\ Refreshed
    /\ now > 0
    /\ auth_metrics.continuous_auth_checks > 0
    /\ auth_contexts[ret.device].auth_time = now
    /\ auth_contexts[ret.device].expires_at = now + TokenLifetimeMinutes

\* the trust of d's context is restored in this step: trust_score rises, or behavior_normal
\* goes from false to true
TrustRestored(d) ==
    /\ HasContext(auth_contexts, d)
    /\ HasContext(auth_contexts', d)
    /\ \/ auth_contexts'[d].trust_score > auth_contexts[d].trust_score
       \/ ~auth_contexts[d].behavior_normal /\ auth_contexts'[d].behavior_normal

\* C20 (as claimed): only re-authentication restores trust. No continuous_authentication_check,
\* refresh_token or passing of time raises the trust_score of a device's context or sets its
\* behavior_normal back to true; the only step that does is an authenticate_device call for
\* the device that succeeds (returns a token), and it sets trust_score to 100.
C20_OnlyReauthenticationRestoresTrust ==
    [][ \A d \in AuthDevices :
          TrustRestored(d) =>
              /\ ret'.op = "authenticate_device"
              /\ ret'.device = d
              /\ ret'.token # NoToken
              /\ auth_contexts'[d].trust_score = Points(InitialTrust)
      ]_vars

\* the context of d has passed expires_at but is otherwise trusted
ExpiredButTrusted(d) ==
    /\ HasContext(auth_contexts, d)
    /\ IsExpired(auth_contexts[d], now)
    /\ auth_contexts[d].trust_score >= Points(MinTrustScore)
    /\ auth_contexts[d].behavior_normal
    /\ auth_contexts[d].certificate_valid

\* C21 (as claimed): expired sessions are recoverable by refresh. For a device whose session
\* has passed expires_at but is otherwise still trusted (trust_score >= 70, behavior_normal,
\* certificate_valid), refresh_token returns a token and the session is active again
\* (not expired), without a re-authentication.
C21_ExpiredRecoverableByRefresh ==
    [][ \A d \in AuthDevices :
          (ret'.op = "refresh_token" /\ ret'.device = d /\ ExpiredButTrusted(d))
          => /\ ret'.token # NoToken
             /\ ~IsExpired(auth_contexts'[d], now)
      ]_vars

(***************************************************************************)
(* Claims about concurrent calls                                           *)
(***************************************************************************)
\* the context a check call leaves when it runs alone on context c
AfterCheck(c, call) == IF call.live THEN TrustUpdate(c, call.score, call.at) ELSE c

\* the session of d as authenticate_device created it
FreshContext(d) ==
    [ auth_contexts[d] EXCEPT !.trust_score = Points(InitialTrust), !.behavior_normal = TRUE ]

\* both threads have completed a continuous_authentication_check on the session of d
BothChecked(d) ==
    /\ HasContext(auth_contexts, d)
    /\ \A t \in Threads : inflight[t] # Idle /\ inflight[t].pc = "done" /\ inflight[t].device = d

\* C22 (as claimed): no lost updates per device. When two continuous_authentication_check
\* calls on the same device overlap, the context they leave equals the context some serial
\* order of the two calls leaves; e.g. two anomalous checks on a fresh session leave
\* trust_score 60.
C22_NoLostUpdates ==
    \A d \in AuthDevices :
        BothChecked(d) =>
            \/ auth_contexts[d] = AfterCheck(AfterCheck(FreshContext(d), inflight["t1"]), inflight["t2"])
            \/ auth_contexts[d] = AfterCheck(AfterCheck(FreshContext(d), inflight["t2"]), inflight["t1"])


\* every value the policy list takes comes from the one before it by one whole
\* add (one policy appended) or one whole remove (every policy of a name gone)
WholeMutation ==
    \/ policies' = policies
    \/ /\ Len(policies') = Len(policies) + 1
       /\ SubSeq(policies', 1, Len(policies)) = policies
    \/ \E i \in 1..Len(policies) :
           policies' = SelectSeq(policies, LAMBDA q : q.name # policies[i].name)

\* the evaluating thread copies the list as it stands at one instant and its
\* verdict is the verdict of that copy
DecidesOnSnapshot(t) ==
    /\ evaluate_snapshot(t) => inflight'[t].snapshot = policies
    /\ evaluate_decide(t) =>
           ret'.result = Decide(inflight[t].snapshot, inflight[t].src_zone,
                                inflight[t].dst_zone, inflight[t].protocol,
                                inflight[t].port).allowed

\* C23: an evaluate_traffic call that overlaps add_policy or remove_policy decides
\* against the policy list as it was before or after each mutation, never against
\* a half-applied one such as a list that lost only some policies of the removed name
C23_SnapshotIsolation == [][WholeMutation /\ \A t \in Threads : DecidesOnSnapshot(t)]_vars

\* a call holds its copy while remove_policy takes both policies of one name away
C23_Witness ==
    /\ inflight["t1"] # Idle
    /\ inflight["t1"].pc = "decide"
    /\ Len(inflight["t1"].snapshot) = Len(policies) + 2


(***************************************************************************)
(* Claims about the counters and the zone map                              *)
(***************************************************************************)
SegCounters == {"packets_allowed", "packets_denied", "zone_violations", "lateral_movement_blocked"}

AuthCounters ==
    {"auth_attempts", "auth_success", "auth_failures", "token_refreshes",
     "trust_violations", "mtls_verifications", "continuous_auth_checks"}

\* C24: counters are monotone. Across every operation on either subsystem none of the four
\* segmentation counters and none of the seven authentication counters decreases.
C24_CountersMonotone ==
    [][ /\ \A k \in SegCounters : seg_metrics'[k] >= seg_metrics[k]
        /\ \A k \in AuthCounters : auth_metrics'[k] >= auth_metrics[k] ]_vars

\* counters of both objects have moved: a denied packet, a failed login, a refresh,
\* an mTLS verification and a failed check
C24_Witness ==
    /\ seg_metrics.packets_denied >= 1
    /\ auth_metrics.auth_failures >= 1
    /\ auth_metrics.token_refreshes >= 1
    /\ auth_metrics.mtls_verifications >= 1
    /\ auth_metrics.trust_violations >= 1


\* C25: restore_device(d, target) changes d's zone to target (iot_untrusted when the caller
\* names none, whatever zone d had before quarantine) iff d's current zone is iot_quarantine;
\* if d is unassigned or in any other zone the device-zone map is left unchanged.
C25_RestoreOnlyFromQuarantine ==
    [][ \A d \in Devices, z \in ZoneRestoreZones :
          restore_device(d, z) =>
              /\ device_zones[d] = IOT_QUARANTINE
                     => device_zones' = [ device_zones EXCEPT ![d] = z ]
              /\ device_zones[d] # IOT_QUARANTINE => device_zones' = device_zones ]_vars

\* C25 witness: d1 was restored without a target and is in iot_untrusted, d2 was restored
\* to the dmz; no other operation of the harness puts a device into these zones.
C25_Witness ==
    /\ device_zones["d1"] = IOT_UNTRUSTED
    /\ device_zones["d2"] = "dmz"

\* C26: quarantine_device(d) sets d's zone to iot_quarantine from every prior state of d
\* (any zone, already quarantined, never assigned) and changes no other device's zone;
\* a second call changes nothing.
C26_QuarantineUnconditional ==
    [][ \A d \in Devices :
          quarantine_device(d) =>
              /\ device_zones'[d] = IOT_QUARANTINE
              /\ \A e \in Devices \ {d} : device_zones'[e] = device_zones[e]
              /\ device_zones[d] = IOT_QUARANTINE => device_zones' = device_zones ]_vars

\* C26 witness: d1 is in quarantine, where only quarantine_device puts a device in this
\* harness, while d2 is still unassigned.
C26_Witness ==
    /\ device_zones["d1"] = IOT_QUARANTINE
    /\ device_zones["d2"] = NoZone


(***************************************************************************)
(* Claims about tokens, failed checks, ties and the audit log              *)
(***************************************************************************)
\* the token is the one issued for the session that d holds now
IssuedFor(tok, c) ==
    /\ c.device_id = tok.device_id
    /\ tok = Token(c.device_id, c.device_type, c.auth_method, c.auth_time,
                   c.expires_at, c.trust_score)

\* C27 (as claimed): token round trip and tamper detection. A token issued for the current
\* session and presented to verify_token before the session's expires_at, with the same
\* signing key, comes back as exactly the claims issued; a token whose claims were altered
\* or that another key signed is never accepted.
C27_TokenRoundTrip ==
    [][ ret'.op = "verify_token" =>
          LET tok == ret'.token
              c == auth_contexts[tok.device_id]
          IN  /\ (IssuedFor(tok, c) /\ now < c.expires_at) => ret'.result = Payload(tok)
              /\ tok.key # jwt_secret => ret'.result = NoPayload ]_vars


MoveToEnd(pols, i) ==
    Append(SubSeq(pols, 1, i - 1) \o SubSeq(pols, i + 1, Len(pols)), pols[i])

\* C29 (as claimed): the tie-break does not depend on insertion order. An engine that holds
\* the same policies added in another order returns the same verdict for every flow, flows
\* that an allow and a deny policy match at the same highest priority included.
C29_VerdictIgnoresInsertionOrder ==
    (ret.op = "evaluate_traffic" /\ ret.kind # "unknown_zone") =>
        \A i \in 1..Len(policies) :
            Decide(MoveToEnd(policies, i), device_zones[ret.src], device_zones[ret.dst],
                   ret.protocol, ret.port).allowed = ret.result


\* C30 (as claimed): every evaluated flow is audited. Each evaluate_traffic call (allow,
\* explicit deny, default deny with no matching policy, unresolved-zone deny) appends exactly
\* one entry to the traffic log whose verdict equals the returned value, and raises exactly
\* one of packets_allowed and packets_denied.
C30_EveryFlowAudited ==
    [][ EvalStep =>
          /\ Len(traffic_log') = Len(traffic_log) + 1
          /\ SubSeq(traffic_log', 1, Len(traffic_log)) = traffic_log
          /\ traffic_log'[Len(traffic_log')].allowed = ret'.result
          /\ seg_metrics'.packets_allowed + seg_metrics'.packets_denied
                 = seg_metrics.packets_allowed + seg_metrics.packets_denied + 1
          /\ seg_metrics'.packets_allowed >= seg_metrics.packets_allowed
          /\ seg_metrics'.packets_denied >= seg_metrics.packets_denied ]_vars


(***************************************************************************)
(* Claims about expiry, decay, dispatch and the anomaly latch              *)
(***************************************************************************)
\* d holds a context that has passed its expires_at
Lapsed(ctxs, d, t) == HasContext(ctxs, d) /\ IsExpired(ctxs[d], t)

\* C31 (as claimed): the expired check fails without mutation. A
\* continuous_authentication_check(d, signal) made at a time >= d's expires_at returns false
\* and leaves the context (trust_score and behavior_normal included) as it was, whatever the
\* anomaly score, and the context stays in the store; every later check keeps returning
\* false until authenticate_device(d) succeeds, so the only step that gives d an unexpired
\* context again is an authenticate_device(d) that returns a token.
C31_ExpiredCheckFailsUntilReauthenticated ==
    [][ \A d \in AuthDevices :
          Lapsed(auth_contexts, d, now) =>
              /\ (ret'.op = "continuous_authentication_check" /\ ret'.device = d)
                     => ret'.result = FALSE /\ auth_contexts' = auth_contexts
              /\ (HasContext(auth_contexts', d) /\ ~Lapsed(auth_contexts', d, now'))
                     => /\ ret'.op = "authenticate_device"
                        /\ ret'.device = d
                        /\ ret'.token # NoToken
      ]_vars


\* C32 (as claimed): the non-anomalous decay step. A continuous_authentication_check with
\* anomaly_score <= 0.5 (or none; exactly 0.5 included) on an unexpired context sets
\* trust_score to max(0, trust_score - 0.1 * minutes since auth_time) and leaves
\* behavior_normal, auth_time and expires_at as they were; a check made at elapsed time 0
\* leaves trust_score unchanged.
C32_DecayStep ==
    [][ \A d \in AuthDevices :
          ( /\ ret'.op = "continuous_authentication_check"
            /\ ret'.device = d
            /\ ret'.score <= AnomalyThresholdTenths
            /\ HasContext(auth_contexts, d)
            /\ ~IsExpired(auth_contexts[d], now) )
          => LET c == auth_contexts[d]
                 left == c.trust_score - TrustDecayTenthsPerMinute * (now - c.auth_time)
             IN  /\ auth_contexts'[d] = [ c EXCEPT !.trust_score = IF left < 0 THEN 0 ELSE left ]
                 /\ now = c.auth_time => auth_contexts'[d].trust_score = c.trust_score
      ]_vars


\* the certificate parses and minute t lies within its validity window
WithinValidity(cert, t) ==
    cert # "none" /\ cert # "garbage" /\ cert[1] <= t /\ t <= cert[2]

\* the conditions the claim names, for one call at time t
ClaimedToSucceed(method, cr, t) ==
    \/ method = "jwt" /\ cr.device_key
    \/ method = "oauth" /\ cr.token # "none" /\ cr.token # ""
    \/ method = "mtls" /\ WithinValidity(cr.certificate, t)

Latched(d) == HasContext(auth_contexts, d) /\ ~auth_contexts[d].behavior_normal

\* C34 (as claimed): the anomaly latch. One continuous_authentication_check with
\* anomaly_score > 0.5 on an unexpired context sets behavior_normal to false and returns
\* false; from then on every continuous_authentication_check returns false and every
\* refresh_token fails for that device, whatever the later scores and even while
\* trust_score >= 70, until a successful authenticate_device: the latch is released only by
\* an authenticate_device call that returns a token (or the context is revoked).
C34_AnomalyLatch ==
    [][ \A d \in AuthDevices :
          /\ ( /\ ret'.op = "continuous_authentication_check"
               /\ ret'.device = d
               /\ ret'.score > AnomalyThresholdTenths
               /\ HasContext(auth_contexts, d)
               /\ ~IsExpired(auth_contexts[d], now) )
             => ~auth_contexts'[d].behavior_normal /\ ret'.result = FALSE
          /\ Latched(d) =>
               /\ (ret'.op = "continuous_authentication_check" /\ ret'.device = d)
                      => ret'.result = FALSE
               /\ (ret'.op = "refresh_token" /\ ret'.device = d) => ret'.token = NoToken
               /\ (HasContext(auth_contexts', d) /\ auth_contexts'[d].behavior_normal)
                      => /\ ret'.op = "authenticate_device"
                         /\ ret'.device = d
                         /\ ret'.token # NoToken
      ]_vars


(***************************************************************************)
(* Claims about stale tokens, the default policies and the accounting      *)
(***************************************************************************)
\* C35: token validity is independent of session state. What verify_token returns depends
\* only on the token, the signing key and the current time, never on the auth context
\* store, which it leaves alone: a token that the key signed is accepted, with its claims,
\* until its own expiry claim, also after revoke_authentication, after a trust violation and
\* after a newer token was issued by refresh_token or authenticate_device.
C35_TokenIndependentOfSession ==
    [][ ret'.op = "verify_token" =>
          /\ ret'.result = IF ret'.token.key = jwt_secret /\ EpochSeconds(now) < ret'.token.exp
                           THEN Payload(ret'.token)
                           ELSE NoPayload
          /\ auth_contexts' = auth_contexts ]_vars

\* C35 witness: the token issued to d1 at minute 0 was accepted in that same minute after
\* d1's session had been revoked and no context was left for d1.
C35_Witness ==
    /\ ret.op = "verify_token"
    /\ ret.result # NoPayload
    /\ ret.token.iat = Timestamp(0)
    /\ now = 0
    /\ auth_metrics.auth_success >= 1
    /\ revoked["d1"]
    /\ ~HasContext(auth_contexts, "d1")


\* the zone pairs the claim lists as reachable
ClaimedReachable ==
    { <<"iot_trusted", "cloud_gateway">>, <<"cloud_gateway", "data_processing">>,
      <<"data_processing", "ai_analytics">>, <<"ai_analytics", "data_processing">>,
      <<"admin", "management">> }
        \cup { <<"management", z>> : z \in SecurityZone \ {"external", "iot_quarantine"} }

C37_AuthAccounting ==
    [][ LET m == auth_metrics
            n == auth_metrics'
            issued == IF ret'.op \in {"authenticate_device", "refresh_token"}
                      THEN ret'.token # NoToken ELSE FALSE
        IN  /\ n.auth_attempts = n.auth_success + n.auth_failures
            /\ n.auth_attempts - m.auth_attempts
                   = (IF ret'.op = "authenticate_device" THEN 1 ELSE 0)
            /\ n.auth_success - m.auth_success
                   = (IF ret'.op = "authenticate_device" /\ issued THEN 1 ELSE 0)
            /\ n.continuous_auth_checks - m.continuous_auth_checks
                   = (IF ret'.op = "continuous_authentication_check" THEN 1 ELSE 0)
            /\ n.token_refreshes - m.token_refreshes
                   = (IF ret'.op = "refresh_token" /\ issued THEN 1 ELSE 0) ]_vars

\* C37 witness: two authenticate_device calls, one that returned a token and one that
\* failed, a refresh that returned a token, and two checks of which the last found no
\* session.
C37_Witness ==
    /\ auth_metrics.auth_attempts = 2
    /\ auth_metrics.auth_success = 1
    /\ auth_metrics.auth_failures = 1
    /\ auth_metrics.token_refreshes = 1
    /\ auth_metrics.continuous_auth_checks = 2
    /\ ret.op = "continuous_authentication_check"
    /\ ~HasContext(auth_contexts, ret.device)


SegOperationsWithoutFlow ==
    \/ \E d \in Devices, z \in SecurityZone : assign_device_zone(d, z)
    \/ \E d \in Devices : quarantine_device(d)
    \/ \E d \in Devices, z \in SecurityZone : restore_device(d, z)
    \/ \E p \in SnapshotPolicies : add_policy(p)
    \/ \E n \in SnapshotRemovableNames : remove_policy(n)

\* C38: segmentation accounting. Every evaluate_traffic call raises packets_allowed +
\* packets_denied by exactly 1, so the sum is the number of calls made; zone_violations and
\* lateral_movement_blocked are never raised in the same call and only together with
\* packets_denied, so their sum never exceeds packets_denied; and assign_device_zone,
\* quarantine_device, restore_device, add_policy and remove_policy leave the four counters
\* and the traffic log unchanged.
C38_SegAccounting ==
    [][ LET m == seg_metrics
            n == seg_metrics'
        IN  /\ EvalStep =>
                 /\ n.packets_allowed + n.packets_denied
                        = m.packets_allowed + m.packets_denied + 1
                 /\ n.packets_allowed >= m.packets_allowed
                 /\ n.packets_denied >= m.packets_denied
                 /\ (n.zone_violations - m.zone_violations)
                        + (n.lateral_movement_blocked - m.lateral_movement_blocked)
                        \in {0, n.packets_denied - m.packets_denied}
                 /\ n.zone_violations >= m.zone_violations
                 /\ n.lateral_movement_blocked >= m.lateral_movement_blocked
            /\ n.zone_violations + n.lateral_movement_blocked <= n.packets_denied
            /\ SegOperationsWithoutFlow => n = m /\ traffic_log' = traffic_log ]_vars

\* C38 witness: a flow from iot_trusted into iot_untrusted was denied as lateral movement
\* and counted once, after the default gateway rule had been removed.
C38_Witness ==
    /\ ret.op = "evaluate_traffic"
    /\ seg_metrics.packets_denied = 1
    /\ seg_metrics.lateral_movement_blocked = 1
    /\ seg_metrics.zone_violations = 0
    /\ device_zones["d2"] = IOT_UNTRUSTED
    /\ Len(policies) = Len(DefaultPolicies) - 1

====
